---- MODULE Spec2Model ----
(***************************************************************************)
(* Model of population_restorator.forecaster.people.forecast_people: the   *)
(* year progression driver that clones a population database into each     *)
(* year slot, shifts ages by one year and calls the three balancers.       *)
(*                                                                         *)
(* A database is the set of rows of its population_divided table; a row is *)
(* a record [age, social_group_id, men, women].  dbs[0] is start_db and    *)
(* dbs[k], k >= 1, is the committed content of the k-th element of         *)
(* years_databases.  txn is what year_cur sees inside the `with` block.    *)
(***************************************************************************)
EXTENDS Integers, Sequences, FiniteSets, TLC

\* ---------------------------------------------------------------- bounds
MaxSlots == 2
MaxCount == 2
RngStates == 2

\* ------------------------------------------------- social group catalogue
PrimaryGroups == {"p1", "p2"}
AdditionalGroups == {"a1"}

is_primary(g) == g \in PrimaryGroups

\* Order in which ties between equal remainders are broken for a given draw.
GroupOrder(draw) == IF draw % 2 = 0 THEN <<"p1", "p2">> ELSE <<"p2", "p1">>

\* Default share profile used when a cohort has no people yet (equal shares).
DefaultShare(g) == 1

Row(a, g, m, w) == [age |-> a, social_group_id |-> g, men |-> m, women |-> w]

\* ------------------------------------------------------------- SQL helpers
Val(r, col) ==
    IF col = "men" THEN r.men
    ELSE IF col = "women" THEN r.women
    ELSE r.men + r.women

RECURSIVE SumRows(_, _)
SumRows(rows, col) ==
    IF rows = {} THEN 0
    ELSE LET r == CHOOSE x \in rows : TRUE
         IN  Val(r, col) + SumRows(rows \ {r}, col)

\* SELECT sum(men + women) FROM population_divided WHERE age = 0  (NULL -> 0)
Age0Total(db) == SumRows({r \in db : r.age = 0}, "both")

\* SELECT max(age) FROM population_divided
MaxAgeOf(db) == CHOOSE a \in {r.age : r \in db} : \A r \in db : r.age <= a

\* UPDATE population_divided SET age = age + d
UpdateAge(db, d) == {[r EXCEPT !.age = r.age + d] : r \in db}

\* DELETE FROM population_divided WHERE age = a
DeleteAge(db, a) == {r \in db : r.age # a}

\* A plausible slip: the DELETE names max_age instead of max_age + 1.
AgeShiftDeleteOffByOne(db, m) == DeleteAge(UpdateAge(UpdateAge(db, m + 1), 0 - m), m)

\* A plausible slip: the second UPDATE subtracts max_age + 1, undoing the shift.
AgeShiftNoShift(db, m) == DeleteAge(UpdateAge(UpdateAge(db, m + 1), 0 - (m + 1)), m + 1)

\* The two UPDATEs and the DELETE of the age shift.
AgeShift(db, m) == DeleteAge(UpdateAge(UpdateAge(db, m + 1), 0 - m), m + 1)

\* ------------------------------------------------------- forecast matrices
\* DataFrame.iat[r, c] on a matrix kept as a sequence of rows (0-based r, c).
InBounds(M, r, c) == r >= 0 /\ r < Len(M) /\ c >= 0 /\ c < Len(M[r + 1])

iat(M, r, c) == M[r + 1][c + 1]

\* A plausible slip: enumerate() starting at 0, so year i reads row i - 1.
ForecastRowOffByOne(year) == year - 1

\* Row of the forecast matrices read while processing year slot `year`.
ForecastRow(year) == year

\* ----------------------------------------------------------- the balancers
\* The balancing module is not part of the driver's file; the three balancers
\* are modelled from their design: proportional redistribution with
\* largest-remainder rounding, ties broken by one draw of the random source.

\* Head-count of sex `sex` at age `age` over the primary social groups.
Current(db, age, sex) ==
    SumRows({r \in db : r.age = age /\ is_primary(r.social_group_id)}, sex)

GroupCount(db, age, g, sex) ==
    SumRows({r \in db : r.age = age /\ r.social_group_id = g}, sex)

RECURSIVE SumShares(_)
SumShares(G) ==
    IF G = {} THEN 0
    ELSE LET g == CHOOSE x \in G : TRUE IN DefaultShare(g) + SumShares(G \ {g})

\* Ideal share of group g as a fraction IdealNum / IdealDen.
IdealDen(db, age, sex) ==
    IF Current(db, age, sex) = 0 THEN SumShares(PrimaryGroups) ELSE Current(db, age, sex)

IdealNum(db, age, sex, g, needed) ==
    IF Current(db, age, sex) = 0 THEN DefaultShare(g) * needed
    ELSE GroupCount(db, age, g, sex) * needed

Pos(g, draw) == CHOOSE k \in 1..Len(GroupOrder(draw)) : GroupOrder(draw)[k] = g

RECURSIVE SumFloors(_, _, _, _, _)
SumFloors(db, age, sex, G, needed) ==
    IF G = {} THEN 0
    ELSE LET g == CHOOSE x \in G : TRUE
         IN  (IdealNum(db, age, sex, g, needed) \div IdealDen(db, age, sex))
             + SumFloors(db, age, sex, G \ {g}, needed)

\* Number of primary groups served before g when the remaining units are dealt.
Ahead(db, age, sex, g, needed, draw) ==
    LET den == IdealDen(db, age, sex)
        rem(h) == IdealNum(db, age, sex, h, needed) % den
    IN  Cardinality({h \in PrimaryGroups :
            \/ rem(h) > rem(g)
            \/ rem(h) = rem(g) /\ Pos(h, draw) < Pos(g, draw)})

\* New count of primary group g so that the cohort sums to `needed` exactly.
NewCount(db, age, sex, g, needed, draw) ==
    LET den == IdealDen(db, age, sex)
        remaining == needed - SumFloors(db, age, sex, PrimaryGroups, needed)
    IN  (IdealNum(db, age, sex, g, needed) \div den)
        + (IF Ahead(db, age, sex, g, needed, draw) < remaining THEN 1 ELSE 0)

\* Additional groups keep their share of the cohort, rounded down.
Scaled(db, age, sex, c, needed) ==
    IF Current(db, age, sex) = 0 THEN (IF c < needed THEN c ELSE needed)
    ELSE (c * needed) \div Current(db, age, sex)

SetSex(r, is_male, n) == IF is_male THEN [r EXCEPT !.men = n] ELSE [r EXCEPT !.women = n]

SexOf(is_male) == IF is_male THEN "men" ELSE "women"

balance_year_age_sex(db, age, needed, is_male, draw) ==
    LET sex == SexOf(is_male)
        upd(r) ==
            IF r.age # age THEN r
            ELSE IF is_primary(r.social_group_id)
                 THEN SetSex(r, is_male, NewCount(db, age, sex, r.social_group_id, needed, draw))
                 ELSE SetSex(r, is_male, Scaled(db, age, sex, Val(r, sex), needed))
        absent == {g \in PrimaryGroups :
                     /\ \A r \in db : ~(r.age = age /\ r.social_group_id = g)
                     /\ NewCount(db, age, sex, g, needed, draw) > 0}
    IN  {upd(r) : r \in db}
        \cup {SetSex(Row(age, g, 0, 0), is_male, NewCount(db, age, sex, g, needed, draw)) :
                g \in absent}

balance_year_primary_social_groups(db, draw) ==
    LET upd(r) ==
            IF ~is_primary(r.social_group_id) THEN r
            ELSE [r EXCEPT
                    !.men = NewCount(db, r.age, "men", r.social_group_id,
                                     Current(db, r.age, "men"), draw),
                    !.women = NewCount(db, r.age, "women", r.social_group_id,
                                       Current(db, r.age, "women"), draw)]
    IN  {upd(r) : r \in db}

balance_year_additional_social_groups(db, draw) ==
    LET cap(c, total) == IF c < total THEN c ELSE total
        upd(r) ==
            IF is_primary(r.social_group_id) THEN r
            ELSE [r EXCEPT !.men = cap(r.men, Current(db, r.age, "men")),
                           !.women = cap(r.women, Current(db, r.age, "women"))]
    IN  {upd(r) : r \in db}

\* One draw advances the random source.
Advance(gen) == <<(gen[1] + 1) % RngStates>>

\* ------------------------------------------------------------------ inputs
\* Start databases the driver is run on.
StartSnapshots ==
    { {Row(0, "p1", 1, 1), Row(0, "p2", 1, 0), Row(1, "p1", 2, 1), Row(1, "a1", 1, 1)},
      {Row(0, "p1", 0, 0), Row(1, "p1", 1, 1)},
      {Row(0, "p1", 1, 2), Row(1, "p2", 1, 1), Row(2, "p1", 2, 0), Row(2, "a1", 1, 0)},
      {Row(0, "p2", 1, 1)} }

\* The forecast is built for the ages 0..max_age of the start database, one
\* column per age in ascending order.
ForecastColumns(s) == [c \in 1..(MaxAgeOf(s) + 1) |-> c - 1]

\* A forecast matrix pair with the given numbers of rows, the women matrix
\* with colsWomen columns; k varies the targets.
Forecast(cols, rowsMen, rowsWomen, colsWomen, k) ==
    [columns |-> cols,
     men     |-> [r \in 1..rowsMen |->
                    [c \in 1..Len(cols) |-> (k + (r - 1) + (c - 1)) % (MaxCount + 1)]],
     women   |-> [r \in 1..rowsWomen |->
                    [c \in 1..colsWomen |-> (k + 2 * (r - 1) + c) % (MaxCount + 1)]]]

\* ------------------------------------------------------------------- state
VARIABLES
    dbs,              \* committed content of start_db (0) and of each year slot
    txn,              \* content of year_db as year_cur sees it
    in_transaction,   \* year_db has uncommitted writes
    forecasted_ages,  \* argument: [columns, men, women], the two matrices
    numSlots,         \* argument: length of years_databases
    callback,         \* argument: TRUE when a callback is given
    rng,              \* <<>> for None, <<state>> for a generator
    max_age, previous_db, i, j, men_needed, women_needed,
    pc, fault,
    calls,            \* callback invocations so far
    steps,            \* per slot, the steps of its year so far
    order,            \* slots in the order the loop took them
    reads,            \* forecast lookups made so far
    cloned,           \* per slot, what backup() copied into it
    written,          \* slots the driver has written to
    draws             \* state of the generator handed to each balancer call

vars == <<dbs, txn, in_transaction, forecasted_ages, numSlots, callback, rng,
          max_age, previous_db, i, j, men_needed, women_needed, pc, fault,
          calls, steps, order, reads, cloned, written, draws>>

inputs == <<forecasted_ages, numSlots, callback>>

\* forecasted_ages.men.columns: the age labels of the forecast columns.
Columns == forecasted_ages.columns

locals == <<max_age, previous_db, i, j, men_needed, women_needed>>

Step(op, age, sex) == [op |-> op, age |-> age, sex |-> sex]

Plain(op) == Step(op, -1, "-")

Log(s) == steps' = [steps EXCEPT ![i] = Append(@, s)]

Init ==
    /\ numSlots \in 0..MaxSlots
    /\ \E s \in StartSnapshots :
         /\ dbs = [k \in 0..numSlots |-> IF k = 0 THEN s ELSE {}]
         /\ \E rm \in 1..(MaxSlots + 1), rw \in 1..(MaxSlots + 1), k \in 0..MaxCount,
               cw \in {Len(ForecastColumns(s)) - 1, Len(ForecastColumns(s))} :
              forecasted_ages = Forecast(ForecastColumns(s), rm, rw, cw, k)
    /\ callback \in BOOLEAN
    /\ rng \in {<<>>} \cup {<<s>> : s \in 0..(RngStates - 1)}
    /\ txn = {}
    /\ in_transaction = FALSE
    /\ max_age = -1
    /\ previous_db = 0
    /\ i = 0
    /\ j = 0
    /\ men_needed = 0
    /\ women_needed = 0
    /\ pc = "start"
    /\ fault = "none"
    /\ calls = <<>>
    /\ steps = [k \in 1..numSlots |-> <<>>]
    /\ order = <<>>
    /\ reads = {}
    /\ cloned = [k \in 1..numSlots |-> {}]
    /\ written = {}
    /\ draws = <<>>

\* ------------------------------------------------------------ control flow
\* A plausible slip: the additional balancer called before the primary one.
NextPcAdditionalFirst(p, jj) ==
    CASE p = "clone"      -> "pre"
      [] p = "pre"        -> "shift"
      [] p = "shift"      -> "post"
      [] p = "post"       -> IF Len(Columns) > 0 THEN "lookup" ELSE "additional"
      [] p = "lookup"     -> "bal_men"
      [] p = "bal_men"    -> "bal_women"
      [] p = "bal_women"  -> IF jj + 1 < Len(Columns) THEN "lookup" ELSE "additional"
      [] p = "additional" -> "primary"
      [] p = "primary"    -> "log"
      [] p = "log"        -> "commit"
      [] p = "commit"     -> "callback"
      [] p = "callback"   -> "loop"

\* The statement that follows statement p of the loop body.
NextPc(p, jj) ==
    CASE p = "clone"      -> "pre"
      [] p = "pre"        -> "shift"
      [] p = "shift"      -> "post"
      [] p = "post"       -> IF Len(Columns) > 0 THEN "lookup" ELSE "primary"
      [] p = "lookup"     -> "bal_men"
      [] p = "bal_men"    -> "bal_women"
      [] p = "bal_women"  -> IF jj + 1 < Len(Columns) THEN "lookup" ELSE "primary"
      [] p = "primary"    -> "additional"
      [] p = "additional" -> "log"
      [] p = "log"        -> "commit"
      [] p = "commit"     -> "callback"
      [] p = "callback"   -> "loop"

\* An exception leaves the `with` block: year_db rolls back, the call ends.
Raise(f) ==
    /\ pc' = "aborted"
    /\ fault' = f
    /\ txn' = dbs[i]
    /\ in_transaction' = FALSE

\* ----------------------------------------------------------------- actions
\* Lines 53-63: default random source, max_age of the start database.
Begin ==
    /\ pc = "start"
    /\ IF rng = <<>>
       THEN \E seed \in 0..(RngStates - 1) : rng' = <<seed>>
       ELSE rng' = rng
    /\ max_age' = MaxAgeOf(dbs[0])
    /\ previous_db' = 0
    /\ pc' = "loop"
    /\ UNCHANGED <<dbs, txn, in_transaction, inputs, i, j, men_needed, women_needed,
                   fault, calls, steps, order, reads, cloned, written>>
    /\ UNCHANGED draws

\* A plausible slip: the loop advances by two and leaves a slot out.
NextSlotSkipping ==
    /\ pc = "loop"
    /\ IF i < numSlots
       THEN /\ i' = IF i + 2 <= numSlots THEN i + 2 ELSE i + 1
            /\ order' = Append(order, i')
            /\ j' = 0
            /\ pc' = "clone"
       ELSE /\ pc' = "done"
            /\ UNCHANGED <<i, j, order>>
    /\ UNCHANGED <<dbs, txn, in_transaction, inputs, rng, max_age, previous_db,
                   men_needed, women_needed, fault, calls, steps, reads, cloned, written>>
    /\ UNCHANGED draws

\* Line 64: the for loop takes the next year database, or ends.
NextSlot ==
    /\ pc = "loop"
    /\ IF i < numSlots
       THEN /\ i' = i + 1
            /\ order' = Append(order, i + 1)
            /\ j' = 0
            /\ pc' = "clone"
       ELSE /\ pc' = "done"
            /\ UNCHANGED <<i, j, order>>
    /\ UNCHANGED <<dbs, txn, in_transaction, inputs, rng, max_age, previous_db,
                   men_needed, women_needed, fault, calls, steps, reads, cloned, written>>
    /\ UNCHANGED draws

\* A plausible slip: the backup runs the wrong way, year_db.backup(previous_db).
CloneReversed ==
    /\ pc = "clone"
    /\ dbs' = [dbs EXCEPT ![previous_db] = dbs[i]]
    /\ txn' = dbs[i]
    /\ cloned' = [cloned EXCEPT ![i] = dbs[i]]
    /\ written' = written \cup {previous_db}
    /\ Log(Plain("clone"))
    /\ pc' = NextPc("clone", j)
    /\ UNCHANGED <<in_transaction, inputs, rng, locals, fault, calls, order, reads>>
    /\ UNCHANGED draws

\* Lines 65-72: previous_db.backup(year_db) and the cursor on the copy.
Clone ==
    /\ pc = "clone"
    /\ dbs' = [dbs EXCEPT ![i] = dbs[previous_db]]
    /\ txn' = dbs[previous_db]
    /\ cloned' = [cloned EXCEPT ![i] = dbs[previous_db]]
    /\ written' = written \cup {i}
    /\ Log(Plain("clone"))
    /\ pc' = NextPc("clone", j)
    /\ UNCHANGED <<in_transaction, inputs, rng, locals, fault, calls, order, reads>>
    /\ UNCHANGED draws

\* A plausible slip: the assertion on age 0 before the shift is left out.
PreCheckMissing ==
    /\ pc = "pre"
    /\ Log(Plain("pre"))
    /\ pc' = NextPc("pre", j)
    /\ UNCHANGED <<fault, txn, in_transaction>>
    /\ UNCHANGED <<dbs, inputs, rng, locals, calls, order, reads, cloned, written>>
    /\ UNCHANGED draws

\* Lines 74-75: age 0 of the copy must hold people.
PreCheck ==
    /\ pc = "pre"
    /\ Log(Plain("pre"))
    /\ IF Age0Total(txn) # 0
       THEN /\ pc' = NextPc("pre", j)
            /\ UNCHANGED <<fault, txn, in_transaction>>
       ELSE Raise("assert_pre")
    /\ UNCHANGED <<dbs, inputs, rng, locals, calls, order, reads, cloned, written>>
    /\ UNCHANGED draws

\* A plausible slip: the UPDATEs run in autocommit mode and reach the file.
ShiftAutocommit ==
    /\ pc = "shift"
    /\ txn' = AgeShift(txn, max_age)
    /\ dbs' = [dbs EXCEPT ![i] = AgeShift(txn, max_age)]
    /\ in_transaction' = FALSE
    /\ Log(Plain("shift"))
    /\ pc' = NextPc("shift", j)
    /\ UNCHANGED <<inputs, rng, locals, fault, calls, order, reads, cloned, written>>
    /\ UNCHANGED draws

\* Lines 76-78: the age shift.
Shift ==
    /\ pc = "shift"
    /\ txn' = AgeShift(txn, max_age)
    /\ in_transaction' = TRUE
    /\ Log(Plain("shift"))
    /\ pc' = NextPc("shift", j)
    /\ UNCHANGED <<dbs, inputs, rng, locals, fault, calls, order, reads, cloned, written>>
    /\ UNCHANGED draws

\* Lines 79-80: age 0 must be empty after the shift.
PostCheck ==
    /\ pc = "post"
    /\ Log(Plain("post"))
    /\ IF Age0Total(txn) = 0
       THEN /\ pc' = NextPc("post", j)
            /\ UNCHANGED <<fault, txn, in_transaction>>
       ELSE Raise("assert_post")
    /\ UNCHANGED <<dbs, inputs, rng, locals, calls, order, reads, cloned, written>>
    /\ UNCHANGED draws

Read(matrix) == [year |-> i, matrix |-> matrix, row |-> ForecastRow(i), col |-> j]

\* Lines 82-85: the targets of column j; iat raises IndexError out of bounds.
Lookup ==
    /\ pc = "lookup"
    /\ IF InBounds(forecasted_ages.men, ForecastRow(i), j)
       THEN /\ men_needed' = iat(forecasted_ages.men, ForecastRow(i), j)
            /\ reads' = reads \cup {Read("men"), Read("women")}
            /\ IF InBounds(forecasted_ages.women, ForecastRow(i), j)
               THEN /\ women_needed' = iat(forecasted_ages.women, ForecastRow(i), j)
                    /\ pc' = NextPc("lookup", j)
                    /\ UNCHANGED <<fault, txn, in_transaction>>
               ELSE /\ Raise("IndexError")
                    /\ UNCHANGED women_needed
       ELSE /\ reads' = reads \cup {Read("men")}
            /\ Raise("IndexError")
            /\ UNCHANGED <<men_needed, women_needed>>
    /\ UNCHANGED <<dbs, inputs, rng, max_age, previous_db, i, j, calls, steps, order,
                   cloned, written>>
    /\ UNCHANGED draws

\* A plausible slip: the call is handed a freshly seeded generator, not rng.
BalanceMenFreshGenerator ==
    /\ pc = "bal_men"
    /\ \E seed \in 0..(RngStates - 1) :
         /\ txn' = balance_year_age_sex(txn, Columns[j + 1], men_needed, TRUE, seed)
         /\ draws' = Append(draws, seed)
    /\ Log(Step("age_sex", Columns[j + 1], "men"))
    /\ pc' = NextPc("bal_men", j)
    /\ UNCHANGED <<dbs, in_transaction, inputs, rng, locals, fault, calls, order, reads,
                   cloned, written>>

\* Line 86.
BalanceMen ==
    /\ pc = "bal_men"
    /\ txn' = balance_year_age_sex(txn, Columns[j + 1], men_needed, TRUE, rng[1])
    /\ rng' = Advance(rng)
    /\ Log(Step("age_sex", Columns[j + 1], "men"))
    /\ pc' = NextPc("bal_men", j)
    /\ UNCHANGED <<dbs, in_transaction, inputs, locals, fault, calls, order, reads,
                   cloned, written>>
    /\ draws' = Append(draws, rng[1])

\* A plausible slip: the women of the age are balanced to the men's target.
BalanceWomenToMenTarget ==
    /\ pc = "bal_women"
    /\ txn' = balance_year_age_sex(txn, Columns[j + 1], men_needed, FALSE, rng[1])
    /\ rng' = Advance(rng)
    /\ Log(Step("age_sex", Columns[j + 1], "women"))
    /\ j' = j + 1
    /\ pc' = NextPc("bal_women", j)
    /\ UNCHANGED <<dbs, in_transaction, inputs, max_age, previous_db, i, men_needed,
                   women_needed, fault, calls, order, reads, cloned, written>>
    /\ draws' = Append(draws, rng[1])

\* Line 87, and the loop of line 82 moving to the next column.
BalanceWomen ==
    /\ pc = "bal_women"
    /\ txn' = balance_year_age_sex(txn, Columns[j + 1], women_needed, FALSE, rng[1])
    /\ rng' = Advance(rng)
    /\ Log(Step("age_sex", Columns[j + 1], "women"))
    /\ j' = j + 1
    /\ pc' = NextPc("bal_women", j)
    /\ UNCHANGED <<dbs, in_transaction, inputs, max_age, previous_db, i, men_needed,
                   women_needed, fault, calls, order, reads, cloned, written>>
    /\ draws' = Append(draws, rng[1])

\* Line 89.
Primary ==
    /\ pc = "primary"
    /\ txn' = balance_year_primary_social_groups(txn, rng[1])
    /\ rng' = Advance(rng)
    /\ Log(Plain("primary"))
    /\ pc' = NextPc("primary", j)
    /\ UNCHANGED <<dbs, in_transaction, inputs, locals, fault, calls, order, reads,
                   cloned, written>>
    /\ draws' = Append(draws, rng[1])

\* Line 90.
Additional ==
    /\ pc = "additional"
    /\ txn' = balance_year_additional_social_groups(txn, rng[1])
    /\ rng' = Advance(rng)
    /\ Log(Plain("additional"))
    /\ pc' = NextPc("additional", j)
    /\ UNCHANGED <<dbs, in_transaction, inputs, locals, fault, calls, order, reads,
                   cloned, written>>
    /\ draws' = Append(draws, rng[1])

\* Line 92: _log_year_results only reads.
LogYear ==
    /\ pc = "log"
    /\ Log(Plain("log"))
    /\ pc' = NextPc("log", j)
    /\ UNCHANGED <<dbs, txn, in_transaction, inputs, rng, locals, fault, calls, order,
                   reads, cloned, written>>
    /\ UNCHANGED draws

\* A plausible slip: the callback is called inside the `with` block.
CommitAfterCallback ==
    /\ pc = "commit"
    /\ Log(Plain("commit"))
    /\ pc' = NextPc("commit", j)
    /\ UNCHANGED <<dbs, txn, in_transaction, inputs, rng, locals, fault, calls, order,
                   reads, cloned, written>>
    /\ UNCHANGED draws

\* Lines 94-95 and the end of the `with` block: year_db commits.
Commit ==
    /\ pc = "commit"
    /\ dbs' = [dbs EXCEPT ![i] = txn]
    /\ in_transaction' = FALSE
    /\ written' = written \cup {i}
    /\ Log(Plain("commit"))
    /\ pc' = NextPc("commit", j)
    /\ UNCHANGED <<txn, inputs, rng, locals, fault, calls, order, reads, cloned>>
    /\ UNCHANGED draws

\* Lines 96-97: the callback, when given, gets the year database.
YearComplete ==
    /\ pc = "callback"
    /\ IF callback
       THEN /\ calls' = Append(calls, [slot |-> i, db |-> dbs[i],
                                       committed |-> ~in_transaction])
            /\ Log(Plain("callback"))
       ELSE UNCHANGED <<calls, steps>>
    /\ pc' = NextPc("callback", j)
    /\ UNCHANGED <<dbs, txn, in_transaction, inputs, rng, locals, fault, order, reads,
                   cloned, written>>
    /\ UNCHANGED draws

Next ==
    \/ Begin
    \/ NextSlot
    \/ Clone
    \/ PreCheck
    \/ Shift
    \/ PostCheck
    \/ Lookup
    \/ BalanceMen
    \/ BalanceWomen
    \/ Primary
    \/ Additional
    \/ LogYear
    \/ Commit
    \/ YearComplete

Spec == Init /\ [][Next]_vars

\* The driver is straight-line synchronous code: an enabled step is taken.
FairSpec == Spec /\ WF_vars(Next)

\* ------------------------------------------------------- auxiliary notions
IsPrefix(s, t) == Len(s) <= Len(t) /\ \A n \in 1..Len(s) : s[n] = t[n]

\* Year k has left its `with` block normally.
Completed(k) == k < i \/ (k = i /\ pc \in {"callback", "loop", "done"})

\* backup() has copied into slot k.
Cloned(k) == k < i \/ (k = i /\ pc # "clone")

RECURSIVE AgeSexSteps(_)
AgeSexSteps(c) ==
    IF c > Len(Columns) THEN <<>>
    ELSE <<Step("age_sex", Columns[c], "men"), Step("age_sex", Columns[c], "women")>>
         \o AgeSexSteps(c + 1)

\* The steps of one whole year, in the order the design lists them.
FullSteps ==
    <<Plain("clone"), Plain("pre"), Plain("shift"), Plain("post")>>
    \o AgeSexSteps(1)
    \o <<Plain("primary"), Plain("additional"), Plain("log"), Plain("commit")>>
    \o (IF callback THEN <<Plain("callback")>> ELSE <<>>)

Target(sex, year, c) ==
    IF sex = "men" THEN iat(forecasted_ages.men, year, c - 1)
    ELSE iat(forecasted_ages.women, year, c - 1)

\* ------------------------------------------------------------------ claims

\* C1: every slot that has been cloned into received a full copy of the
\* resolved snapshot of the year before it (the start snapshot for slot 1,
\* slot k - 1 for slot k >= 2).
C1_CloneFromPreviousYear ==
    \A k \in 1..numSlots :
        (Cloned(k) /\ (k = 1 \/ Completed(k - 1))) =>
            /\ cloned[k] = dbs[k - 1]
            /\ (k = i => previous_db = k - 1)

\* C2: conservation.  In every completed year k, for every forecast age and
\* each sex, the primary-group counts of the cohort in slot k sum to the
\* forecast target of row k exactly.
C2_Conservation ==
    \A k \in 1..numSlots :
        Completed(k) =>
            \A c \in 1..Len(Columns), sex \in {"men", "women"} :
                Current(dbs[k], Columns[c], sex) = Target(sex, k, c)

C2_Witness ==
    /\ pc = "done"
    /\ numSlots >= 2
    /\ \E c \in 1..Len(Columns) :
         Current(dbs[2], Columns[c], "women") # Current(dbs[1], Columns[c], "men")

\* C3: with a callback given, it has been called once for each year that
\* left its `with` block, in slot order, on the committed year database, and
\* the call for year k precedes the clone of year k + 1; with none given
\* nothing is called.
C3_CallbackOncePerYear ==
    /\ ~callback => calls = <<>>
    /\ callback =>
         /\ Len(calls) = (IF pc \in {"loop", "done"} \/ i = 0 THEN i ELSE i - 1)
         /\ \A n \in 1..Len(calls) :
              /\ calls[n].slot = n
              /\ calls[n].committed
              /\ calls[n].db = dbs[n]
              /\ Completed(n)

C3_Witness == pc = "done" /\ callback /\ Len(calls) >= 2

\* C4: a forecast matrix with a missing entry is reported before any year is
\* processed: when the fault is raised no slot was written and no callback
\* was called.
C4_InputFaultBeforeAnyYear ==
    fault = "IndexError" => (written = {} /\ calls = <<>>)

\* C5: when the copy made for year k has nobody of age 0, the run aborts at
\* the check before the shift: no shift and no balancer ran for year k, no
\* callback was called for year k or later, and no later slot was written.
C5_ConsistencyFaultAborts ==
    \A k \in 1..numSlots :
        (Cloned(k) /\ ~(k = i /\ pc = "pre") /\ Age0Total(cloned[k]) = 0) =>
            /\ pc = "aborted"
            /\ fault = "assert_pre"
            /\ i = k
            /\ steps[k] = <<Plain("clone"), Plain("pre")>>
            /\ dbs[k] = cloned[k]
            /\ ~in_transaction
            /\ \A n \in 1..Len(calls) : calls[n].slot < k
            /\ \A m \in (k + 1)..numSlots :
                 m \notin written /\ dbs[m] = {} /\ steps[m] = <<>>

C5_Witness == pc = "aborted" /\ fault = "assert_pre" /\ numSlots >= 2 /\ callback

\* C6: right after the shift, before any balancer, the year database has no
\* row of age 0 with a non-zero count and no row older than max_age, and the
\* assertion after the shift never fails.
C6_AgeShiftBounds ==
    /\ fault # "assert_post"
    /\ pc = "post" =>
         /\ \A r \in txn : r.age = 0 => r.men + r.women = 0
         /\ \A r \in txn : r.age <= max_age
         /\ Age0Total(txn) = 0

C6_Witness == pc = "post" /\ i >= 2 /\ \E r \in txn : r.age = max_age

\* C7: every forecast lookup of year i asks for row i, in the men and in the
\* women matrix; row 0 is never asked for.
C7_ReadsRowOfYear ==
    /\ \A rd \in reads : rd.row = rd.year /\ rd.row # 0
    /\ pc = "bal_men" =>
         \A m \in {"men", "women"} :
             [year |-> i, matrix |-> m, row |-> i, col |-> j] \in reads

C7_Witness ==
    \E rd \in reads : rd.year >= 2 /\ rd.matrix = "women" /\ rd.col = Len(Columns) - 1

\* C8: a run without a fault takes every slot once, in order, and ends with
\* every slot cloned, shifted, balanced and committed; every run ends.
C8_AllSlotsResolved ==
    pc = "done" =>
        /\ fault = "none"
        /\ order = [k \in 1..numSlots |-> k]
        /\ \A k \in 1..numSlots : steps[k] = FullSteps /\ k \in written
        /\ ~in_transaction
        /\ numSlots >= 1 => dbs[numSlots] = txn

C8_EveryRunResolves ==
    /\ []C8_AllSlotsResolved
    /\ <>(pc = "done" \/ fault # "none")

C8_Witness == pc = "done" /\ numSlots >= 2 /\ Len(order) = numSlots

\* C9: within a year the steps come in the order clone, check, shift, check,
\* age-sex balancing per forecast age in ascending age order with men before
\* women, primary balancing once, additional balancing once, summary.
C9_StepOrder ==
    \A k \in 1..numSlots :
        /\ IsPrefix(steps[k], FullSteps)
        /\ \A a, b \in 1..Len(steps[k]) :
             (a < b /\ steps[k][a].op = "age_sex" /\ steps[k][b].op = "age_sex") =>
                 \/ steps[k][a].age < steps[k][b].age
                 \/ /\ steps[k][a].age = steps[k][b].age
                    /\ steps[k][a].sex = "men"
                    /\ steps[k][b].sex = "women"

C9_Witness == pc = "done" /\ numSlots >= 2 /\ steps[2] = FullSteps

\* C10: the shift uses the max_age of the start database, fixed before the
\* first year; it moves every row of age a < max_age to age a + 1 with group
\* and counts unchanged, removes exactly the rows of age max_age, and neither
\* merges nor creates rows.
C10_AgeShiftIsRowMap ==
    [][ /\ pc # "start" => (max_age' = max_age /\ max_age = MaxAgeOf(dbs[0]))
        /\ (pc = "shift" /\ pc' = "post") =>
             /\ txn' = {[r EXCEPT !.age = r.age + 1] : r \in {x \in txn : x.age # max_age}}
             /\ \A r \in txn' : r.age >= 1 /\ r.age <= max_age
             /\ Cardinality(txn') = Cardinality({x \in txn : x.age # max_age})
      ]_vars

C10_Witness ==
    /\ pc = "post"
    /\ Cardinality(txn) >= 2
    /\ Cardinality(txn) < Cardinality(cloned[i])

\* C11: frame.  A step of year i changes the committed content of slot i
\* only: the start database and every other slot keep their content, a slot
\* whose year has completed is never changed again, and only slots the loop
\* has reached are ever written.
C11_Frame ==
    [][ /\ dbs'[0] = dbs[0]
        /\ \A k \in 1..numSlots :
             /\ dbs'[k] # dbs[k] => (k = i /\ pc \in {"clone", "commit"})
             /\ Completed(k) => dbs'[k] = dbs[k]
        /\ written' \subseteq written \cup {i}
        /\ 0 \notin written'
      ]_vars

C11_Witness ==
    /\ pc = "commit"
    /\ i >= 2
    /\ txn # dbs[i]
    /\ dbs[i - 1] # dbs[0]
    /\ dbs[i - 1] # dbs[i]

\* C12: no partial snapshot is committed.  The committed content of a slot is
\* at any time either untouched, the complete copy made by the clone, or the
\* fully resolved snapshot of its year; after a fault in year i the shift and
\* balancing writes of year i are rolled back and slot i holds the copy.
C12_ResolvedOrCopy ==
    \A k \in 1..numSlots :
        \/ k \notin written /\ dbs[k] = {} /\ steps[k] = <<>>
        \/ /\ Cloned(k)
           /\ dbs[k] = cloned[k]
           /\ \A n \in 1..Len(steps[k]) : steps[k][n].op # "commit"
        \/ /\ Len(steps[k]) >= Len(FullSteps) - (IF callback THEN 1 ELSE 0)
           /\ IsPrefix(steps[k], FullSteps)
           /\ k = i => (dbs[k] = txn /\ ~in_transaction)

C12_RolledBack ==
    pc = "aborted" =>
        /\ ~in_transaction
        /\ txn = dbs[i]
        /\ dbs[i] = cloned[i]

C12_NoPartialSnapshot ==
    /\ [](C12_ResolvedOrCopy /\ C12_RolledBack)
    /\ [][ \A k \in 1..numSlots :
             dbs'[k] # dbs[k] =>
                 \/ pc = "clone" /\ dbs'[k] = dbs[previous_db]
                 \/ pc = "commit" /\ dbs'[k] = txn /\ pc' # "aborted"
         ]_vars

C12_Witness ==
    /\ pc = "aborted"
    /\ fault = "IndexError"
    /\ i >= 1
    /\ \E n \in 1..Len(steps[i]) : steps[i][n].op = "age_sex"
    /\ dbs[i] # AgeShift(dbs[i], max_age)

\* State of a generator in state g after n draws.
RECURSIVE AdvN(_, _)
AdvN(g, n) == IF n = 0 THEN g ELSE AdvN(Advance(<<g>>)[1], n - 1)

\* Balancer calls of one year: two per forecast column, then two more.
DrawsPerYear == 2 * Len(Columns) + 2

\* The age-sex balancing of columns c.. of year `year`, drawing from state g.
RECURSIVE BalanceColumns(_, _, _, _)
BalanceColumns(db, year, c, g) ==
    IF c > Len(Columns) THEN db
    ELSE BalanceColumns(
             balance_year_age_sex(
                 balance_year_age_sex(db, Columns[c], Target("men", year, c), TRUE, g),
                 Columns[c], Target("women", year, c), FALSE, AdvN(g, 1)),
             year, c + 1, AdvN(g, 2))

\* The snapshot of year `year` as a function of the start database, the
\* forecast and the state g of the random source when the year begins.
YearResult(start, year, g) ==
    balance_year_additional_social_groups(
        balance_year_primary_social_groups(
            BalanceColumns(AgeShift(start, MaxAgeOf(start)), year, 1, g),
            AdvN(g, 2 * Len(Columns))),
        AdvN(g, 2 * Len(Columns) + 1))

\* C13: every balancer call of every year draws from one and the same random
\* stream: a generator given by the caller is used as it is, one is created
\* only when none is given, and it is never replaced or reseeded; so the
\* snapshot of every completed year is a function of the start database, the
\* forecast, the slot and the initial state of the random source alone.
C13_OneStream ==
    /\ \A n \in 1..Len(draws) : draws[n] = AdvN(draws[1], n - 1)
    /\ (pc # "start" /\ draws # <<>>) => rng = <<AdvN(draws[1], Len(draws))>>
    /\ pc # "start" => rng # <<>>

C13_Determined ==
    \A k \in 1..numSlots :
        Completed(k) =>
            dbs[k] = YearResult(dbs[0], k, AdvN(draws[1], (k - 1) * DrawsPerYear))

C13_SingleStreamDeterminism ==
    /\ [](C13_OneStream /\ C13_Determined)
    /\ [][ /\ (pc = "start" /\ rng # <<>>) => rng' = rng
           /\ (pc # "start" /\ draws' = draws) => rng' = rng
           /\ (pc # "start" /\ draws' # draws) =>
                  (draws' = Append(draws, rng[1]) /\ rng' = Advance(rng))
         ]_vars

C13_Witness ==
    /\ pc = "done"
    /\ numSlots >= 2
    /\ Len(draws) = numSlots * DrawsPerYear
    /\ \E g \in 0..(RngStates - 1) : YearResult(dbs[0], 2, g) # dbs[2]

====
